---------------------------- MODULE Spec2Model ----------------------------
(***************************************************************************)
(* A model of parsink: the weighted, priority-ordered pattern-matching     *)
(* machine of src/src/lib.rs (Pattern::eval, Pattern::add, merge) and of   *)
(* the weights of src/examples/caesar.rs.                                  *)
(*                                                                         *)
(* Option<W> is modelled as a sequence of length at most one: None is <<>> *)
(* and Some(w) is <<w>>.  Program counters are 0-based as in the source;   *)
(* instruction pc of the pattern is pattern[pc + 1].                       *)
(***************************************************************************)
EXTENDS Integers, Sequences, FiniteSets, TLC

(***************************************************************************)
(* Bounds of the model.                                                    *)
(***************************************************************************)
MaxProgLen == 2      \* longest program of the exhaustive family
MaxInputLen == 3     \* longest input sequence passed to eval
MaxTestLen == 5      \* longest input passed to the programs of the tests
MaxCalls == 2        \* eval calls made on one Pattern value, where it is reused

(***************************************************************************)
(* Program constants.                                                      *)
(***************************************************************************)
KeyBits == 128       \* CaesarKeys wraps a NonZeroU128: one bit per key
ByteMod == 256       \* u8 arithmetic of CaesarRange::step wraps modulo 2^8
U8Max == 255         \* the tests and the example choose PC = u8

\* Input symbols.  The small programs read two symbols; the programs of the
\* tests read three: 0 stands for 'A', 1 for a lower-case letter, 2 for any
\* other byte.
Syms == {0, 1}
TestSyms == {0, 1, 2}

VARIABLES
    pattern,    \* Pattern.pattern: the borrowed instruction slice
    kind,       \* which Weight / Step implementation W, S are bound to
    pcmax,      \* largest value of the program-counter type PC
    caller,     \* the caller: which inputs it may pass to eval (every
                \* sequence over syms of at most maxlen symbols, or the
                \* example's ciphertexts) and how many calls it makes
    input,      \* the input of the eval call in progress (or last made)
    pos,        \* number of symbols the for loop has taken from the input
    threads,    \* Pattern.threads: Vec<(PC, W)>
    index,      \* Pattern.index: HashMap<PC, usize>
    taken,      \* what is left of the list std::mem::take handed to the loop
    matched,    \* eval's local `matched`
    result,     \* eval's local `result`; the returned value once ctl = "done"
    ctl,        \* where the caller / eval stands
    ncalls,     \* eval calls started so far on this Pattern
    stale,      \* history: the pcs of the threads eval found when called
    hist,       \* history: `matched` at the end of each processed symbol
    regs,       \* history: (next, new) pairs the Step arm registered, this symbol
    prefs,      \* history: the Prefer expansions made, this symbol
    calls,      \* history: number of add invocations of this eval call
    depth       \* history: deepest nesting of add reached in this eval call

vars == <<pattern, kind, pcmax, caller, input, pos, threads, index, taken,
          matched, result, ctl, ncalls, stale, hist, regs, prefs, calls, depth>>

(***************************************************************************)
(* Option<W>.                                                              *)
(***************************************************************************)
None == <<>>
Some(w) == <<w>>
IsSome(o) == Len(o) = 1
Unwrap(o) == o[1]

\* Option::or, as used in `result = matched.or(result)`.
OptionOr(a, b) == IF IsSome(a) THEN a ELSE b

Range(s) == {s[i] : i \in DOMAIN s}
Max2(a, b) == IF a >= b THEN a ELSE b

(***************************************************************************)
(* Weights.  Three implementations of the Weight trait:                    *)
(*   "unit"  : impl Weight for () of lib.rs; the value () is <<>>.         *)
(*   "keys"  : CaesarKeys of examples/caesar.rs; a weight is the set of    *)
(*             the bit positions that are set in the u128.                 *)
(*   "terms" : a caller-supplied weight that forgets nothing: a weight is  *)
(*             the expression that built it, written as a string.  success *)
(*             is "e", self.concat(other) is "(self.other)" and never      *)
(*             fails, self.merge(other) is "(self+other)".  Every call the *)
(*             engine makes, and the order of its operands, can be read    *)
(*             off such a weight.                                          *)
(***************************************************************************)
WeightSuccess ==
    CASE kind = "unit" -> <<>>
      [] kind = "keys" -> 0..(KeyBits - 1)
      [] kind = "terms" -> "e"

WeightConcat(self, other) ==
    CASE kind = "unit" -> Some(<<>>)
      [] kind = "keys" ->
            IF self \cap other = {} THEN None ELSE Some(self \cap other)
      [] kind = "terms" -> Some("(" \o self \o "." \o other \o ")")

WeightMerge(self, other) ==
    CASE kind = "unit" -> self
      [] kind = "keys" -> self \cup other
      [] kind = "terms" -> "(" \o self \o "+" \o other \o ")"

(***************************************************************************)
(* Instructions.  Every instruction is a record with the same fields; a    *)
(* field an instruction kind does not have is 0.                           *)
(***************************************************************************)
Step(lo, hi) == [op |-> "Step", lo |-> lo, hi |-> hi, to |-> 0]
Jump(to) == [op |-> "Jump", lo |-> 0, hi |-> 0, to |-> to]
PreferTarget(to) == [op |-> "PreferTarget", lo |-> 0, hi |-> 0, to |-> to]
PreferNext(to) == [op |-> "PreferNext", lo |-> 0, hi |-> 0, to |-> to]

(***************************************************************************)
(* Step::step of instruction s on symbol x.                                *)
(*   "unit"  : the RangeInclusive implementation.                          *)
(*   "keys"  : CaesarRange::step: the keys K = C - P (mod 128) for P in    *)
(*             the range, as a rotated mask of len one-bits.               *)
(*   "terms" : the closure implementation, for the closure that accepts    *)
(*             the range lo..=hi and answers the weight "r<lo><hi>".       *)
(***************************************************************************)
\* A range test that forgets the upper end.
RangeContains_NoUpper(s, x) == s.lo <= x

RangeContains(s, x) == s.lo <= x /\ x <= s.hi

\* The mask rotated from the start of the range instead of its end.
CaesarMask_FromStart(s, x) ==
    LET len == IF s.hi >= s.lo THEN s.hi - s.lo + 1 ELSE 0
        key_start == ((x - s.lo) % ByteMod) % KeyBits
    IN {(key_start + i) % KeyBits : i \in 0..(len - 1)}

CaesarMask(s, x) ==
    LET len == IF s.hi >= s.lo THEN s.hi - s.lo + 1 ELSE 0
        key_start == ((x - s.hi) % ByteMod) % KeyBits
    IN {(key_start + i) % KeyBits : i \in 0..(len - 1)}

step(s, x) ==
    CASE kind = "unit" ->
            IF RangeContains(s, x) THEN Some(WeightSuccess) ELSE None
      [] kind = "keys" ->
            IF CaesarMask(s, x) = {} THEN None ELSE Some(CaesarMask(s, x))
      [] kind = "terms" ->
            IF RangeContains(s, x)
            THEN Some("r" \o ToString(s.lo) \o ToString(s.hi)) ELSE None

(***************************************************************************)
(* fn merge(a: Option<W>, b: Option<W>) -> Option<W>                       *)
(***************************************************************************)
merge(a, b) ==
    CASE ~IsSome(a) /\ ~IsSome(b) -> None
      [] IsSome(a) /\ ~IsSome(b) -> a
      [] ~IsSome(a) /\ IsSome(b) -> b
      [] IsSome(a) /\ IsSome(b) -> Some(WeightMerge(Unwrap(a), Unwrap(b)))

(***************************************************************************)
(* Pattern::as_pc: whether the usize fits the PC type.                     *)
(***************************************************************************)
\* A conversion that never fails.
as_pc_ok_Always(pc) == TRUE

as_pc_ok(pc) == pc <= pcmax

(***************************************************************************)
(* The Step arm's use of self.index.entry(next): a vacant entry appends    *)
(* the thread and records its position, an occupied one merges the new     *)
(* weight into the thread already there.  st carries self.threads and      *)
(* self.index through the calls of add.                                    *)
(***************************************************************************)
\* An occupied entry that merges the old weight into the new one.
register_NewFirst(st, next, new) ==
    IF next \notin DOMAIN st.index
    THEN [st EXCEPT !.index = (next :> Len(st.threads)) @@ st.index,
                    !.threads = Append(st.threads, <<next, new>>),
                    !.regs = Append(st.regs, <<next, new>>)]
    ELSE LET at == st.index[next] + 1
             old == st.threads[at][2]
         IN [st EXCEPT !.threads[at] = <<st.threads[at][1], WeightMerge(new, old)>>,
                       !.regs = Append(st.regs, <<next, new>>)]

\* Every registration pushes a thread, whether the index has the pc or not.
register_AlwaysPush(st, next, new) ==
    [st EXCEPT !.index = (next :> Len(st.threads)) @@ st.index,
               !.threads = Append(st.threads, <<next, new>>),
               !.regs = Append(st.regs, <<next, new>>)]

register(st, next, new) ==
    IF next \notin DOMAIN st.index
    THEN [st EXCEPT !.index = (next :> Len(st.threads)) @@ st.index,
                    !.threads = Append(st.threads, <<next, new>>),
                    !.regs = Append(st.regs, <<next, new>>)]
    ELSE LET at == st.index[next] + 1
             old == st.threads[at][2]
         IN [st EXCEPT !.threads[at] = <<st.threads[at][1], WeightMerge(old, new)>>,
                       !.regs = Append(st.regs, <<next, new>>)]

\* cur.concat(&weight): the step's weight as self, the accumulated as other.
StepConcat_Swapped(s, weight, x) ==
    IF IsSome(step(s, x)) THEN WeightConcat(Unwrap(step(s, x)), weight) ELSE None

\* s.step(input).and_then(|cur| weight.concat(&cur))
StepConcat(s, weight, x) ==
    IF IsSome(step(s, x)) THEN WeightConcat(weight, Unwrap(step(s, x))) ELSE None

\* A Step arm that converts pc + 1 before it looks at the symbol.
add_step_ConvertFirst(st, pc, weight, x) ==
    LET new == StepConcat(pattern[pc + 1], weight, x)
    IN IF ~as_pc_ok(pc + 1) THEN [st EXCEPT !.status = "abort"]
       ELSE IF ~IsSome(new) THEN st
       ELSE register(st, pc + 1, Unwrap(new))

\* A Step arm that returns the new weight when the successor is the
\* past-the-end position.
add_step_ReportsCompletion(st, pc, weight, x) ==
    LET new == StepConcat(pattern[pc + 1], weight, x)
    IN IF ~IsSome(new) THEN st
       ELSE IF ~as_pc_ok(pc + 1) THEN [st EXCEPT !.status = "abort"]
       ELSE [register(st, pc + 1, Unwrap(new)) EXCEPT
               !.ret = IF pc + 1 < Len(pattern) THEN None ELSE new]

\* A Step arm that registers the thread at the Step itself.
add_step_SamePc(st, pc, weight, x) ==
    LET new == StepConcat(pattern[pc + 1], weight, x)
    IN IF ~IsSome(new) THEN st
       ELSE IF ~as_pc_ok(pc + 1) THEN [st EXCEPT !.status = "abort"]
       ELSE register(st, pc, Unwrap(new))

\* The Step arm of add.
add_step(st, pc, weight, x) ==
    LET new == StepConcat(pattern[pc + 1], weight, x)
    IN IF ~IsSome(new) THEN st
       ELSE IF ~as_pc_ok(pc + 1) THEN [st EXCEPT !.status = "abort"]
       ELSE register(st, pc + 1, Unwrap(new))

\* Fallthrough first for both Prefer instructions.
PreferOrder_NextFirst(inst, pc) == <<pc + 1, inst.to>>

\* Which branch of a Prefer instruction at pc is expanded first, which second.
PreferOrder(inst, pc) ==
    IF inst.op = "PreferTarget" THEN <<inst.to, pc + 1>> ELSE <<pc + 1, inst.to>>

(***************************************************************************)
(* Pattern::add(pc, weight, input).  st is [threads, index, ret, status,   *)
(* calls, depth, regs, prefs]; the answer is st after the call, with ret   *)
(* the value returned.  stack lists the pcs of the enclosing calls of add: *)
(* a call on a pc that is already on the stack repeats itself for ever     *)
(* (nothing the recursion reads has changed), which the model reports as   *)
(* status "diverged" instead of recursing.  A panic in as_pc ends every    *)
(* enclosing call: status "abort".                                         *)
(***************************************************************************)
\* An add that completes at pc = program length only and panics at a pc
\* beyond it.
RECURSIVE add_DanglingPanics(_, _, _, _, _)
add_DanglingPanics(st, pc, weight, x, stack) ==
    LET st0 == [st EXCEPT !.ret = None,
                          !.calls = @ + 1,
                          !.depth = Max2(@, Len(stack) + 1)]
    IN IF pc \in Range(stack) THEN [st0 EXCEPT !.status = "diverged"]
       ELSE IF pc > Len(pattern) THEN [st0 EXCEPT !.status = "abort"]
       ELSE IF pc = Len(pattern) THEN [st0 EXCEPT !.ret = Some(weight)]
       ELSE LET inst == pattern[pc + 1]
                inner == Append(stack, pc)
            IN CASE inst.op = "Step" -> add_step(st0, pc, weight, x)
                 [] inst.op = "Jump" -> add_DanglingPanics(st0, inst.to, weight, x, inner)
                 [] inst.op \in {"PreferTarget", "PreferNext"} ->
                      LET ord == PreferOrder(inst, pc)
                          s1 == add_DanglingPanics(st0, ord[1], weight, x, inner)
                          s2 == add_DanglingPanics(s1, ord[2], weight, x, inner)
                          ret == merge(s1.ret, s2.ret)
                          toRet == IF ord[1] = inst.to THEN s1.ret ELSE s2.ret
                          nextRet == IF ord[1] = inst.to THEN s2.ret ELSE s1.ret
                      IN IF s1.status # "ok" THEN s1
                         ELSE IF s2.status # "ok" THEN s2
                         ELSE [s2 EXCEPT
                                 !.ret = ret,
                                 !.prefs = Append(@, [pc |-> pc, op |-> inst.op,
                                                      toRet |-> toRet,
                                                      nextRet |-> nextRet,
                                                      ret |-> ret])]

RECURSIVE add(_, _, _, _, _)
add(st, pc, weight, x, stack) ==
    LET st0 == [st EXCEPT !.ret = None,
                          !.calls = @ + 1,
                          !.depth = Max2(@, Len(stack) + 1)]
    IN IF pc \in Range(stack) THEN [st0 EXCEPT !.status = "diverged"]
       ELSE IF pc >= Len(pattern) THEN [st0 EXCEPT !.ret = Some(weight)]
       ELSE LET inst == pattern[pc + 1]
                inner == Append(stack, pc)
            IN CASE inst.op = "Step" -> add_step(st0, pc, weight, x)
                 [] inst.op = "Jump" -> add(st0, inst.to, weight, x, inner)
                 [] inst.op \in {"PreferTarget", "PreferNext"} ->
                      LET ord == PreferOrder(inst, pc)
                          s1 == add(st0, ord[1], weight, x, inner)
                          s2 == add(s1, ord[2], weight, x, inner)
                          ret == merge(s1.ret, s2.ret)
                          toRet == IF ord[1] = inst.to THEN s1.ret ELSE s2.ret
                          nextRet == IF ord[1] = inst.to THEN s2.ret ELSE s1.ret
                      IN IF s1.status # "ok" THEN s1
                         ELSE IF s2.status # "ok" THEN s2
                         ELSE [s2 EXCEPT
                                 !.ret = ret,
                                 !.prefs = Append(@, [pc |-> pc, op |-> inst.op,
                                                      toRet |-> toRet,
                                                      nextRet |-> nextRet,
                                                      ret |-> ret])]

(***************************************************************************)
(* The inputs the caller draws from.                                       *)
(***************************************************************************)
SeqsUpTo(S, n) == UNION {[1..k -> S] : k \in 0..n}

\* The plaintext of examples/caesar.rs and its ciphertext under a key:
\* p.wrapping_add(key) & 0x7F.
Message == <<104, 101, 108, 108, 111, 95, 119, 111, 114, 108, 100>>

Ciphertext(key) == [i \in 1..Len(Message) |-> ((Message[i] + key) % ByteMod) % KeyBits]

Sequences(syms, maxlen, maxcalls) ==
    [family |-> "sequences", syms |-> syms, maxlen |-> maxlen, maxcalls |-> maxcalls]

Ciphertexts(maxcalls) ==
    [family |-> "ciphertexts", syms |-> {}, maxlen |-> Len(Message),
     maxcalls |-> maxcalls]

Inputs ==
    IF caller.family = "ciphertexts"
    THEN {Ciphertext(key) : key \in 0..(KeyBits - 1)}
    ELSE SeqsUpTo(caller.syms, caller.maxlen)

(***************************************************************************)
(* Pattern::eval, one action per step of its loop.                         *)
(***************************************************************************)
AddState == [threads |-> threads, index |-> index, ret |-> None, status |-> "ok",
             calls |-> calls, depth |-> depth, regs |-> regs, prefs |-> prefs]

\* The seed pushed without clearing the list first.
SeedThreads_NoClear(old) == Append(old, <<0, WeightSuccess>>)

\* The seed pushed twice.
SeedThreads_Twice(old) == << <<0, WeightSuccess>>, <<0, WeightSuccess>> >>

\* self.threads.clear(); self.threads.push((Self::as_pc(0), W::success()))
SeedThreads(old) == << <<0, WeightSuccess>> >>

\* result = matched: a symbol without a completion forgets the result.
UpdateResult_Overwrite(m, r) == m

\* result = merge(result, matched): the earlier weight is kept and merged.
UpdateResult_Merge(m, r) == merge(r, m)

\* result = matched.or(result)
UpdateResult(m, r) == OptionOr(m, r)

\* A loop that never breaks.
LoopBreaks_Never(ths) == FALSE

\* if self.threads.is_empty() { break; }
LoopBreaks(ths) == ths = <<>>

\* eval is called: the scratch thread list is reseeded and `result` starts
\* as None.  self.index is not touched before the first symbol.
EvalStart ==
    /\ ctl \in {"idle", "done"}
    /\ ncalls < caller.maxcalls
    /\ \E inp \in Inputs : input' = inp
    /\ pos' = 0
    /\ threads' = SeedThreads(threads)
    /\ result' = None
    /\ matched' = None
    /\ taken' = <<>>
    /\ ctl' = "loop"
    /\ ncalls' = ncalls + 1
    /\ stale' = [i \in DOMAIN threads |-> threads[i][1]]
    /\ hist' = <<>>
    /\ regs' = <<>>
    /\ prefs' = <<>>
    /\ calls' = 0
    /\ depth' = 0
    /\ UNCHANGED <<pattern, kind, pcmax, caller, index>>

\* The head of `for input in input`: the next symbol is taken, `matched`
\* starts as None, the index is cleared and the thread list is taken; or
\* the input is exhausted and eval returns `result`.
EvalNextInput ==
    /\ ctl = "loop"
    /\ IF pos < Len(input)
       THEN /\ pos' = pos + 1
            /\ matched' = None
            /\ index' = <<>>
            /\ taken' = threads
            /\ threads' = <<>>
            /\ regs' = <<>>
            /\ prefs' = <<>>
            /\ ctl' = "threads"
       ELSE /\ ctl' = "done"
            /\ UNCHANGED <<pos, matched, index, taken, threads, regs, prefs>>
    /\ UNCHANGED <<pattern, kind, pcmax, caller, input, result, ncalls, stale,
                   hist, calls, depth>>

\* One iteration of the inner loop:
\* matched = merge(matched, self.add(pc.into(), &weight, input))
EvalAddThread ==
    /\ ctl = "threads"
    /\ taken # <<>>
    /\ LET t == Head(taken)
           st == add(AddState, t[1], t[2], input[pos], <<>>)
       IN /\ threads' = st.threads
          /\ index' = st.index
          /\ regs' = st.regs
          /\ prefs' = st.prefs
          /\ calls' = st.calls
          /\ depth' = st.depth
          /\ IF st.status = "ok"
             THEN /\ matched' = merge(matched, st.ret)
                  /\ taken' = Tail(taken)
                  /\ ctl' = "threads"
             ELSE /\ matched' = matched
                  /\ taken' = <<>>
                  /\ ctl' = st.status
    /\ UNCHANGED <<pattern, kind, pcmax, caller, input, pos, result, ncalls,
                   stale, hist>>

\* The end of the loop body: `result` is updated and the loop breaks when
\* no thread is left.
EvalEndInput ==
    /\ ctl = "threads"
    /\ taken = <<>>
    /\ result' = UpdateResult(matched, result)
    /\ hist' = Append(hist, matched)
    /\ ctl' = IF LoopBreaks(threads) THEN "done" ELSE "loop"
    /\ UNCHANGED <<pattern, kind, pcmax, caller, input, pos, threads, index,
                   taken, matched, ncalls, stale, regs, prefs, calls, depth>>

Next == EvalStart \/ EvalNextInput \/ EvalAddThread \/ EvalEndInput

(***************************************************************************)
(* Pattern::eval(input) as a function: the value a freshly constructed     *)
(* Pattern returns for the input, or how the call ends otherwise.          *)
(***************************************************************************)
FreshState == [threads |-> <<>>, index |-> <<>>, ret |-> None, status |-> "ok",
               calls |-> 0, depth |-> 0, regs |-> <<>>, prefs |-> <<>>]

\* The inner loop over the taken thread list, for one symbol x.
RECURSIVE AddAll(_, _, _, _)
AddAll(st, m, rest, x) ==
    IF rest = <<>> THEN [st |-> st, matched |-> m]
    ELSE LET s == add(st, Head(rest)[1], Head(rest)[2], x, <<>>)
         IN IF s.status # "ok" THEN [st |-> s, matched |-> m]
            ELSE AddAll(s, merge(m, s.ret), Tail(rest), x)

RECURSIVE EvalLoop(_, _, _)
EvalLoop(ths, res, inp) ==
    IF inp = <<>> THEN [out |-> "done", result |-> res]
    ELSE LET r == AddAll(FreshState, None, ths, Head(inp))
             res2 == UpdateResult(r.matched, res)
         IN IF r.st.status # "ok" THEN [out |-> r.st.status, result |-> res]
            ELSE IF LoopBreaks(r.st.threads) THEN [out |-> "done", result |-> res2]
            ELSE EvalLoop(r.st.threads, res2, Tail(inp))

eval(inp) == EvalLoop(SeedThreads(<<>>), None, inp)

(***************************************************************************)
(* The programs and inputs the model draws from.                           *)
(***************************************************************************)
StepInsts(syms) == {Step(r[1], r[2]) : r \in {q \in syms \X syms : q[1] <= q[2]}}
CtlInsts(pcm) == {Jump(t) : t \in 0..pcm} \cup {PreferTarget(t) : t \in 0..pcm}
                 \cup {PreferNext(t) : t \in 0..pcm}

\* Every program of at most MaxProgLen instructions whose steps are the
\* non-empty ranges over Syms and whose targets are any value of the PC
\* type, the dangling ones included.
SmallPrograms(pcm) == SeqsUpTo(StepInsts(Syms) \cup CtlInsts(pcm), MaxProgLen)

\* The program of tests::recognize: 'A', then a lower-case letter, repeated.
Recognize == <<Step(0, 0), Step(1, 1), PreferTarget(0)>>

\* Two threads that reach the same Step with different weights.
Converge == <<PreferNext(2), Step(0, 0), Step(0, 1), Jump(2)>>

\* The shape of the example's program over the three test symbols:
\* letters, one separator, letters.
Words == <<Step(1, 1), PreferTarget(0), Step(2, 2), Step(1, 1), PreferTarget(3)>>

TestPrograms == {Recognize, Converge, Words}

\* Programs with a cycle of control instructions that no Step breaks: at
\* pc 0, and behind a Step.
Spin == <<Jump(0)>>
SpinAfterStep == <<Step(0, 1), PreferNext(1), Step(0, 1)>>
CyclicPrograms == {Spin, SpinAfterStep}

\* The program of examples/caesar.rs.
CaesarProgram ==
    <<Step(97, 122), PreferTarget(0), Step(95, 95), Step(97, 122), PreferTarget(3)>>

\* Pattern::new: empty scratch state.
InitEngine ==
    /\ input = <<>>
    /\ pos = 0
    /\ threads = <<>>
    /\ index = <<>>
    /\ taken = <<>>
    /\ matched = None
    /\ result = None
    /\ ctl = "idle"
    /\ ncalls = 0
    /\ stale = <<>>
    /\ hist = <<>>
    /\ regs = <<>>
    /\ prefs = <<>>
    /\ calls = 0
    /\ depth = 0

\* Pattern::new over every small program, with the unit weight and with the
\* terms weight, a PC type that holds every target up to one past the
\* past-the-end position of the longest program, and one call of eval.
Init ==
    /\ pcmax = MaxProgLen + 1
    /\ pattern \in SmallPrograms(pcmax)
    /\ kind \in {"unit", "terms"}
    /\ caller = Sequences(Syms, MaxInputLen, 1)
    /\ InitEngine

\* The programs of the tests, with PC = u8, on inputs as long as the
\* test's "AbAz0".
InitTests ==
    /\ pcmax = U8Max
    /\ pattern \in TestPrograms
    /\ kind \in {"unit", "terms"}
    /\ caller = Sequences(TestSyms, MaxTestLen, 1)
    /\ InitEngine

\* The programs of the tests on one Pattern value that the caller reuses
\* for several calls of eval.
InitReuse ==
    /\ pcmax = U8Max
    /\ pattern \in TestPrograms
    /\ kind \in {"unit", "terms"}
    /\ caller = Sequences(TestSyms, MaxInputLen, MaxCalls)
    /\ InitEngine

\* examples/caesar.rs: the ciphertext of every key, on one reused Pattern.
InitCaesar ==
    /\ pcmax = U8Max
    /\ pattern = CaesarProgram
    /\ kind = "keys"
    /\ caller = Ciphertexts(MaxCalls)
    /\ InitEngine

\* Pattern::new over every small program with a PC type too narrow for
\* the longest of them: its largest value is the last instruction index of
\* a program of MaxProgLen instructions, or that program's past-the-end
\* position.  Targets are any value of the PC type.
InitNarrow ==
    /\ pcmax \in {MaxProgLen - 1, MaxProgLen}
    /\ pattern \in SmallPrograms(pcmax)
    /\ kind = "unit"
    /\ caller = Sequences(Syms, MaxInputLen, 1)
    /\ InitEngine

\* The programs of the tests and the cyclic programs, with PC = u8.
InitTerm ==
    /\ pcmax = U8Max
    /\ pattern \in TestPrograms \cup CyclicPrograms
    /\ kind = "unit"
    /\ caller = Sequences(TestSyms, MaxTestLen, 1)
    /\ InitEngine

\* Pattern::new over the small programs whose targets are instruction
\* indices of the longest program, with PC = u8; with the terms weight,
\* whose steps reject symbols and whose concat never fails, and with the
\* keys weight, whose steps accept every symbol and whose concat fails
\* when the keys of two symbols disagree.
InitWeights ==
    /\ pcmax = U8Max
    /\ pattern \in SmallPrograms(MaxProgLen - 1)
    /\ kind \in {"terms", "keys"}
    /\ caller = Sequences(Syms, MaxInputLen, 1)
    /\ InitEngine

Spec == Init /\ [][Next]_vars
SpecTests == InitTests /\ [][Next]_vars
SpecReuse == InitReuse /\ [][Next]_vars
SpecCaesar == InitCaesar /\ [][Next]_vars
SpecNarrow == InitNarrow /\ [][Next]_vars
SpecWeights == InitWeights /\ [][Next]_vars

\* eval runs on one thread of control: a call that has started takes its
\* next step as long as it has one.
SpecTerm ==
    /\ InitTerm
    /\ [][Next]_vars
    /\ WF_vars(EvalNextInput \/ EvalAddThread \/ EvalEndInput)

(***************************************************************************)
(* What a program accepts, read off the instruction table alone: the       *)
(* positions a thread can rest at (a Step, or a pc that is no instruction) *)
(* and the moves between them.  Used to state what eval is said to decide. *)
(***************************************************************************)
IsInst(pc) == pc < Len(pattern)

\* The pcs a control instruction at pc hands the thread to.
CtlSucc(pc) ==
    IF ~IsInst(pc) THEN {}
    ELSE LET inst == pattern[pc + 1]
         IN CASE inst.op = "Step" -> {}
              [] inst.op = "Jump" -> {inst.to}
              [] OTHER -> {inst.to, pc + 1}

RECURSIVE CtlReach(_, _)
CtlReach(found, frontier) ==
    IF frontier \subseteq found THEN found
    ELSE CtlReach(found \cup frontier,
                  UNION {CtlSucc(q) : q \in frontier \ found})

\* pcs reached from pc by zero or more control instructions.
Closure(pc) == CtlReach({}, {pc})

\* pcs reached from pc by one or more control instructions.
Reach1(pc) == CtlReach({}, CtlSucc(pc))

\* Every program taken to satisfy the condition.
NoControlCycle_Always == TRUE

\* "every control cycle passes through a Step": no cycle of control edges.
NoControlCycle == \A pc \in 0..(Len(pattern) - 1) : pc \notin Reach1(pc)

\* Where a thread entering at pc comes to rest without consuming input.
Rest(pc) == {q \in Closure(pc) : ~IsInst(q) \/ pattern[q + 1].op = "Step"}

\* The resting positions after the symbols of inp, from the positions S,
\* for the range steps of the unit weight.
RECURSIVE Live(_, _)
Live(S, inp) ==
    IF inp = <<>> THEN S
    ELSE Live(UNION {Rest(q + 1) : q \in {r \in S : IsInst(r) /\
                                          pattern[r + 1].lo <= Head(inp) /\
                                          Head(inp) <= pattern[r + 1].hi}},
              Tail(inp))

Prefix(inp, k) == SubSeq(inp, 1, k)

\* inp drives a path from pc 0 to exactly the past-the-end position.
AcceptsWhole(inp) == Len(pattern) \in Live(Rest(0), inp)

\* inp drives a path from pc 0 off the program: to the past-the-end
\* position or to a dangling target beyond it.
LeavesProgram(inp) == \E q \in Live(Rest(0), inp) : ~IsInst(q)

Done == ctl = "done"
Unit == <<>>

(***************************************************************************)
(* C1.  With the unit weight, for a program without control cycles, an     *)
(* input that as a whole drives a path from pc 0 to the past-the-end       *)
(* position makes eval return Some(()).                                    *)
(***************************************************************************)
C1_WholeInputAccepted ==
    (Done /\ kind = "unit" /\ NoControlCycle /\ AcceptsWhole(input))
        => result = Some(Unit)

(***************************************************************************)
(* C2 as claimed.  With the unit weight, eval returns Some(()) only if     *)
(* some prefix of the input (the whole input included) drives a path from  *)
(* pc 0 to the past-the-end position, pc = program length.                 *)
(***************************************************************************)
C2_SomeOnlyIfPrefixAccepted ==
    (Done /\ kind = "unit" /\ IsSome(result))
        => \E k \in 0..Len(input) : AcceptsWhole(Prefix(input, k))

(***************************************************************************)
(* C2 as amended.  With the unit weight, what eval returns is None or      *)
(* Some(()), and Some(()) only if some prefix of the input drives a path   *)
(* from pc 0 to a pc that is no instruction: the past-the-end position or  *)
(* a dangling target beyond it, which Pattern::add counts alike.           *)
(***************************************************************************)
C2_SomeOnlyIfPrefixLeaves ==
    (Done /\ kind = "unit")
        => /\ IsSome(result) => result = Some(Unit)
           /\ IsSome(result) => \E k \in 0..Len(input) : LeavesProgram(Prefix(input, k))

\* A match returned by a program with a Step, on an input of full length
\* none of whose prefixes reaches a dangling target.
C2_Witness ==
    /\ Done /\ kind = "unit" /\ result = Some(Unit)
    /\ \E q \in 0..(Len(pattern) - 1) : pattern[q + 1].op = "Step"
    /\ Len(input) = MaxInputLen
    /\ \E k \in 0..Len(input) : AcceptsWhole(Prefix(input, k))

(***************************************************************************)
(* C3.  For the program [Step(lo..=hi)] and a one-symbol input x, eval     *)
(* returns the identity weight if lo <= x <= hi and None otherwise.        *)
(***************************************************************************)
C3_SingleStep ==
    (Done /\ kind = "unit" /\ Len(pattern) = 1 /\ pattern[1].op = "Step"
          /\ Len(input) = 1)
        => result = IF pattern[1].lo <= input[1] /\ input[1] <= pattern[1].hi
                    THEN Some(WeightSuccess) ELSE None

(***************************************************************************)
(* C4.  Within one call of eval the running result, once present, stays    *)
(* present, and a step taken while `matched` is None leaves it unchanged;  *)
(* so the test's "AbAz0" returns Some(()).                                 *)
(***************************************************************************)
C4_ResultKept ==
    /\ [][(ncalls' = ncalls /\ IsSome(result))
            => (IsSome(result') /\ (~IsSome(matched) => result' = result))]_vars
    /\ []((Done /\ pattern = Recognize /\ kind = "unit" /\ input = <<0, 1, 0, 1, 2>>)
            => result = Some(Unit))

\* A result recorded at one symbol, then a symbol at which nothing completes
\* and every thread dies.
C4_Witness ==
    /\ Done /\ IsSome(result) /\ threads = <<>>
    /\ Len(hist) >= 2
    /\ ~IsSome(hist[Len(hist)])
    /\ IsSome(hist[Len(hist) - 1])

(***************************************************************************)
(* C5.  The running (and returned) result is exactly the `matched` value   *)
(* of the last symbol at which `matched` was present: a later completion   *)
(* replaces the earlier result, and nothing of the earlier weight is left. *)
(***************************************************************************)
LastSome(h) ==
    IF \A i \in DOMAIN h : ~IsSome(h[i]) THEN None
    ELSE h[CHOOSE i \in DOMAIN h :
                /\ IsSome(h[i])
                /\ \A j \in DOMAIN h : j > i => ~IsSome(h[j])]

C5_LaterSupersedes == result = LastSome(hist)

C5_Witness ==
    /\ Done /\ kind = "terms"
    /\ \E i, j \in DOMAIN hist :
          /\ i < j
          /\ IsSome(hist[i]) /\ IsSome(hist[j]) /\ hist[i] # hist[j]
          /\ result = hist[j]

(***************************************************************************)
(* C6.  Priority law.  Every PreferTarget(to) expansion returns the weight *)
(* of the `to` branch merged with the fallthrough branch's (target is      *)
(* self), every PreferNext(to) expansion the fallthrough branch's merged   *)
(* with the `to` branch's; when one branch alone completes its weight is   *)
(* returned unchanged, and None when neither does.                         *)
(***************************************************************************)
PriorityLaw(e) ==
    LET high == IF e.op = "PreferTarget" THEN e.toRet ELSE e.nextRet
        low == IF e.op = "PreferTarget" THEN e.nextRet ELSE e.toRet
    IN /\ (IsSome(high) /\ IsSome(low))
            => e.ret = Some(WeightMerge(Unwrap(high), Unwrap(low)))
       /\ (IsSome(high) /\ ~IsSome(low)) => e.ret = high
       /\ (~IsSome(high) /\ IsSome(low)) => e.ret = low
       /\ (~IsSome(high) /\ ~IsSome(low)) => e.ret = None

C6_PriorityLaw == \A i \in DOMAIN prefs : PriorityLaw(prefs[i])

\* Both branches of a PreferTarget completed, with different weights.
C6_Witness ==
    /\ kind = "terms"
    /\ \E i \in DOMAIN prefs :
          /\ prefs[i].op = "PreferTarget"
          /\ IsSome(prefs[i].toRet) /\ IsSome(prefs[i].nextRet)
          /\ prefs[i].toRet # prefs[i].nextRet

(***************************************************************************)
(* C7.  Convergence law.  While a symbol is processed, the rebuilt list    *)
(* holds one thread for each pc registered, in the order of the first      *)
(* registrations, and its weight is the first registered weight with the   *)
(* later ones merged into it in turn; the index maps the pc to the         *)
(* thread's position.                                                      *)
(***************************************************************************)
FirstRegs == {i \in DOMAIN regs : \A j \in 1..(i - 1) : regs[j][1] # regs[i][1]}

RegWeights(pc) ==
    LET sel == SelectSeq(regs, LAMBDA e : e[1] = pc)
    IN [n \in 1..Len(sel) |-> sel[n][2]]

RECURSIVE MergedInTurn(_)
MergedInTurn(ws) ==
    IF Len(ws) = 1 THEN ws[1]
    ELSE WeightMerge(MergedInTurn(SubSeq(ws, 1, Len(ws) - 1)), ws[Len(ws)])

C7_ConvergenceLaw ==
    pos >= 1 =>
        /\ Len(threads) = Cardinality(FirstRegs)
        /\ DOMAIN index = {regs[i][1] : i \in FirstRegs}
        /\ \A i \in FirstRegs :
              LET k == Cardinality({j \in FirstRegs : j <= i})
              IN /\ threads[k] = <<regs[i][1], MergedInTurn(RegWeights(regs[i][1]))>>
                 /\ index[regs[i][1]] = k - 1

\* Two registrations at one pc with different weights.
C7_Witness ==
    /\ pos >= 1 /\ kind = "terms"
    /\ \E i, j \in DOMAIN regs :
          i < j /\ regs[i][1] = regs[j][1] /\ regs[i][2] # regs[j][2]

(***************************************************************************)
(* C8.  Whatever the earlier calls left in the thread list and the index,  *)
(* a call of eval returns what a freshly constructed Pattern returns for   *)
(* the same input.                                                         *)
(***************************************************************************)
C8_NoLeak ==
    Done => (eval(input).out = "done" /\ result = eval(input).result)

\* A second call that found live threads and a populated index, and matched.
C8_Witness ==
    /\ Done /\ ncalls = 2
    /\ stale # <<>>
    /\ Len(input) >= 2
    /\ IsSome(result)

(***************************************************************************)
(* C9.  Early termination.  The loop never takes another symbol once the   *)
(* rebuilt thread list is empty: eval returns with the later symbols       *)
(* unread, and what it returns is what it returns for the input cut after  *)
(* the last symbol read.                                                   *)
(***************************************************************************)
C9_EarlyTermination ==
    /\ (ctl = "loop" /\ pos >= 1) => threads # <<>>
    /\ (Done /\ pos < Len(input))
          => /\ threads = <<>>
             /\ eval(Prefix(input, pos)).out = "done"
             /\ result = eval(Prefix(input, pos)).result

C9_Witness ==
    /\ Done /\ pos >= 2 /\ pos < Len(input)
    /\ threads = <<>>
    /\ IsSome(result)

(***************************************************************************)
(* C10.  The example: for every key k in 0..127, eval of "hello_world"     *)
(* shifted by k returns the weight with bit k set and no other.            *)
(***************************************************************************)
C10_KeyRecovered ==
    Done => \A key \in 0..(KeyBits - 1) :
                input = Ciphertext(key) => result = Some({key})

\* The key that wraps the alphabet around, on a reused Pattern.
C10_Witness ==
    /\ Done /\ ncalls = 2
    /\ input = Ciphertext(KeyBits - 1)
    /\ result = Some({KeyBits - 1})

(***************************************************************************)
(* C11.  A PC type that holds the program length never makes eval panic    *)
(* in as_pc, whatever targets of that type the program jumps to.  eval     *)
(* panics only while a thread resting at a Step p whose successor p + 1    *)
(* does not fit the PC type takes a symbol the Step accepts, and then no   *)
(* thread is registered at a pc beyond the PC type.                        *)
(***************************************************************************)
C11_AbortOnlyAtUnrepresentableSuccessor ==
    /\ pcmax >= Len(pattern) => ctl # "abort"
    /\ ctl = "abort" =>
          \E p \in Live(Rest(0), Prefix(input, pos - 1)) :
              /\ IsInst(p)
              /\ pattern[p + 1].op = "Step"
              /\ IsSome(StepConcat(pattern[p + 1], WeightSuccess, input[pos]))
              /\ ~as_pc_ok(p + 1)
    /\ \A i \in DOMAIN threads : threads[i][1] <= pcmax

\* The panic at the second symbol, after a thread was registered at the
\* last value of the PC type.
C11_Witness ==
    /\ ctl = "abort" /\ pos >= 2
    /\ pcmax < Len(pattern)

(***************************************************************************)
(* C12 as claimed.  For a fixed program and PC type, the panic in as_pc    *)
(* does not depend on the input: when one call panics, no non-empty input  *)
(* makes eval return normally.                                             *)
(***************************************************************************)
C12_AbortSameForAllInputs ==
    ctl = "abort" => \A inp \in Inputs \ {<<>>} : eval(inp).out # "done"

\* Some symbol of inp is accepted by a Step that a thread rests at and
\* whose successor does not fit the PC type.
TakesUnrepresentableStep(inp) ==
    \E k \in 1..Len(inp) :
        \E p \in Live(Rest(0), Prefix(inp, k - 1)) :
            /\ IsInst(p)
            /\ pattern[p + 1].op = "Step"
            /\ IsSome(StepConcat(pattern[p + 1], WeightSuccess, inp[k]))
            /\ p + 1 > pcmax

(***************************************************************************)
(* C12 as amended.  For a fixed program and PC type, the panic in as_pc    *)
(* depends on the input, and only through the Steps the input drives a     *)
(* thread through: a call that ends has panicked exactly if some symbol    *)
(* of the input was accepted by a Step at p that a thread rested at, with  *)
(* p + 1 beyond the PC type; every other input returns normally.           *)
(***************************************************************************)
C12_AbortIffUnrepresentableStepTaken ==
    ctl \in {"done", "abort"} =>
        /\ (ctl = "abort") <=> TakesUnrepresentableStep(Prefix(input, pos))
        /\ (ctl = "done") => ~TakesUnrepresentableStep(input)

\* A call that panicked at the last symbol of an input whose shorter
\* prefix returns normally.
C12_Witness ==
    /\ ctl = "abort" /\ pos = Len(input) /\ pos >= 2
    /\ eval(Prefix(input, pos - 1)).out = "done"

(***************************************************************************)
(* C13.  Thread-list invariant.  The thread list never holds two threads   *)
(* with one pc, and its pcs are in the order of discovery: the threads of  *)
(* the previous list expanded in list order, the target before the         *)
(* fallthrough inside a PreferTarget and the fallthrough before the target *)
(* inside a PreferNext, each pc listed where it is discovered first.       *)
(* While a symbol is processed the list is a prefix of that order.         *)
(***************************************************************************)
ThreadPcs == [i \in DOMAIN threads |-> threads[i][1]]

\* The successors of the Steps that accept x, in the order a thread
\* entering at pc discovers them.
RECURSIVE StepOrder(_, _)
StepOrder(pc, x) ==
    IF ~IsInst(pc) THEN <<>>
    ELSE LET inst == pattern[pc + 1]
         IN CASE inst.op = "Step" ->
                   IF inst.lo <= x /\ x <= inst.hi THEN <<pc + 1>> ELSE <<>>
              [] inst.op = "Jump" -> StepOrder(inst.to, x)
              [] inst.op = "PreferTarget" ->
                   StepOrder(inst.to, x) \o StepOrder(pc + 1, x)
              [] inst.op = "PreferNext" ->
                   StepOrder(pc + 1, x) \o StepOrder(inst.to, x)

RECURSIVE FirstOccurrences(_)
FirstOccurrences(q) ==
    IF q = <<>> THEN <<>>
    ELSE LET front == FirstOccurrences(SubSeq(q, 1, Len(q) - 1))
         IN IF q[Len(q)] \in Range(front) THEN front
            ELSE Append(front, q[Len(q)])

RECURSIVE ConcatOrders(_, _)
ConcatOrders(pcs, x) ==
    IF pcs = <<>> THEN <<>>
    ELSE StepOrder(Head(pcs), x) \o ConcatOrders(Tail(pcs), x)

\* The pcs of the thread list after the symbols of inp, by priority.
RECURSIVE Discovered(_)
Discovered(inp) ==
    IF inp = <<>> THEN <<0>>
    ELSE FirstOccurrences(
             ConcatOrders(Discovered(SubSeq(inp, 1, Len(inp) - 1)), inp[Len(inp)]))

IsPrefixOf(a, b) == Len(a) <= Len(b) /\ a = SubSeq(b, 1, Len(a))

C13_ThreadListInvariant ==
    /\ \A i, j \in DOMAIN threads : threads[i][1] = threads[j][1] => i = j
    /\ ctl = "threads" => IsPrefixOf(ThreadPcs, Discovered(Prefix(input, pos)))
    /\ ctl \in {"loop", "done"} => ThreadPcs = Discovered(Prefix(input, pos))

\* Two threads of the previous list discovered the same pc, after another
\* symbol at which one Prefer instruction discovered two pcs.
C13_Witness ==
    /\ ctl = "loop" /\ pos >= 2
    /\ Len(Discovered(Prefix(input, pos - 1))) >= 2
    /\ \E i, j \in DOMAIN regs : i < j /\ regs[i][1] = regs[j][1]

ReachesDangling(inp) == \E q \in Live(Rest(0), inp) : q > Len(pattern)

C15_OnlyProgramLengthCompletes ==
    /\ \A k \in DOMAIN hist :
           IsSome(hist[k]) => AcceptsWhole(Prefix(input, k - 1))
    /\ \A k \in DOMAIN hist : ~ReachesDangling(Prefix(input, k - 1))

(***************************************************************************)
(* C15 as amended.  Every pc that is no instruction is a completed match:  *)
(* when the symbols before the k-th drive a path to a target beyond the    *)
(* past-the-end position, the k-th symbol is processed to its end and its  *)
(* `matched` is present, as for pc = program length; and eval panics only  *)
(* if the PC type cannot hold the program length, dangling targets or not. *)
(***************************************************************************)
C15_DanglingTargetCompletes ==
    /\ \A k \in DOMAIN hist :
           ReachesDangling(Prefix(input, k - 1)) => hist[k] = Some(WeightSuccess)
    /\ (ctl \in {"loop", "done"} /\ pos >= 1
            /\ ReachesDangling(Prefix(input, pos - 1)))
           => Len(hist) = pos
    /\ ctl = "abort" => ~as_pc_ok(Len(pattern))

\* A match returned that only a dangling target explains.
C15_Witness ==
    /\ Done /\ result = Some(Unit) /\ Len(input) >= 2
    /\ \A k \in 0..Len(input) : ~AcceptsWhole(Prefix(input, k))
    /\ \E k \in DOMAIN hist : ReachesDangling(Prefix(input, k - 1))

C17_ExpandOncePerPc ==
    (Done /\ NoControlCycle) => calls <= Len(input) * (Len(pattern) + 1)

\* The calls of add that one call of add at pc makes, itself included:
\* the control instructions unfolded as a tree, a pc that two paths reach
\* counted on each.
RECURSIVE ExpandCount(_)
ExpandCount(pc) ==
    IF ~IsInst(pc) THEN 1
    ELSE LET inst == pattern[pc + 1]
         IN CASE inst.op = "Step" -> 1
              [] inst.op = "Jump" -> 1 + ExpandCount(inst.to)
              [] OTHER -> 1 + ExpandCount(inst.to) + ExpandCount(pc + 1)

\* Only the Jump instructions counted.
NumControl_JumpsOnly ==
    Cardinality({q \in 0..(Len(pattern) - 1) : pattern[q + 1].op = "Jump"})

\* The number of control (non-Step) instructions of the program.
NumControl ==
    Cardinality({q \in 0..(Len(pattern) - 1) : pattern[q + 1].op # "Step"})

RECURSIVE Pow2(_)
Pow2(n) == IF n = 0 THEN 1 ELSE 2 * Pow2(n - 1)

(***************************************************************************)
(* C17 as amended.  While a symbol is processed eval calls add at most     *)
(* once for each pc of the thread list.  Inside add nothing remembers the  *)
(* pcs already expanded: for a program without a Step-free control cycle   *)
(* one call of add from eval makes as many calls as the control tree       *)
(* unfolded from its pc has nodes, at most 2^(c + 1) - 1 for c control     *)
(* instructions, so eval makes at most                                     *)
(* symbols read * max(1, program length) * (2^(c + 1) - 1) calls.          *)
(***************************************************************************)
C17_ExpandOncePerThread ==
    /\ [](\A i, j \in DOMAIN taken : taken[i][1] = taken[j][1] => i = j)
    /\ [][(ctl = "threads" /\ taken # <<>> /\ ctl' = "threads" /\ NoControlCycle)
            => /\ calls' = calls + ExpandCount(Head(taken)[1])
               /\ calls' - calls <= Pow2(NumControl + 1) - 1]_vars
    /\ [](NoControlCycle
            => calls <= pos * Max2(1, Len(pattern)) * (Pow2(NumControl + 1) - 1))

\* A call that returned after more calls of add than
\* input length * (program length + 1).
C17_Witness ==
    /\ Done /\ NoControlCycle /\ input # <<>>
    /\ calls > Len(input) * (Len(pattern) + 1)

RECURSIVE FoldWeight(_)
FoldWeight(k) ==
    IF k = 0 THEN Some(WeightSuccess)
    ELSE LET acc == FoldWeight(k - 1)
             cur == step(pattern[k], input[k])
         IN IF IsSome(acc) /\ IsSome(cur)
            THEN WeightConcat(Unwrap(acc), Unwrap(cur))
            ELSE None

\* The Steps a thread entering at pc comes to rest at.
StepsFrom(pc) == {p \in Closure(pc) : IsInst(p) /\ pattern[p + 1].op = "Step"}

C19_PathWeight ==
    /\ []((ctl = "loop" /\ pos = 0) => threads = << <<0, WeightSuccess>> >>)
    /\ []((ctl = "loop" /\ NumControl = 0 /\ pos >= 1)
            => threads = << <<pos, Unwrap(FoldWeight(pos))>> >>)
    /\ [][(ctl = "threads" /\ taken # <<>> /\ ctl' # "diverged")
            => LET t == Head(taken)
                   x == input[pos]
                   new == {i \in DOMAIN regs' : i > Len(regs)}
                   newpcs == {regs'[i][1] : i \in new}
                   alive == {p \in StepsFrom(t[1]) :
                               /\ IsSome(step(pattern[p + 1], x))
                               /\ IsSome(WeightConcat(t[2],
                                            Unwrap(step(pattern[p + 1], x))))}
               IN /\ newpcs = {p + 1 : p \in alive}
                  /\ \A i \in new :
                        Some(regs'[i][2])
                          = WeightConcat(t[2], Unwrap(step(pattern[regs'[i][1]], x)))
                  /\ ctl' = "threads" /\ taken' = Tail(taken)
                  /\ \A i \in DOMAIN threads :
                        threads[i][1] \notin newpcs => threads'[i] = threads[i]
                  /\ (\A q \in Closure(t[1]) : IsInst(q)) => matched' = matched]_vars

\* The thread after two Steps, carrying the fold of two step weights.
C19_Witness ==
    /\ ctl = "loop" /\ pos = 2 /\ kind = "terms"
    /\ NumControl = 0
    /\ threads = << <<2, Unwrap(FoldWeight(2))>> >>
    /\ pattern[1] # pattern[2]

(***************************************************************************)
(* C20.  Every thread of the list, and every thread handed to the loop,    *)
(* has a pc in 0..=program length: before the first symbol it is the seed  *)
(* at pc 0, afterwards it sits at the successor of a Step that accepted    *)
(* the symbol it was registered at.  No thread sits at a pc that is only   *)
(* the target of a control instruction, or beyond the past-the-end         *)
(* position, whatever targets the program has.                             *)
(***************************************************************************)
ThreadAtStepSuccessor(t, k) ==
    IF k = 0 THEN t[1] = 0
    ELSE /\ 1 <= t[1] /\ t[1] <= Len(pattern)
         /\ pattern[t[1]].op = "Step"
         /\ IsSome(step(pattern[t[1]], input[k]))

C20_ThreadPcInProgram ==
    /\ \A i \in DOMAIN threads : ThreadAtStepSuccessor(threads[i], pos)
    /\ \A i \in DOMAIN taken : ThreadAtStepSuccessor(taken[i], pos - 1)

\* A program with a dangling target: one branch of a Prefer completed at
\* the target, the other registered a thread at the past-the-end position.
C20_Witness ==
    /\ ctl = "loop" /\ pos >= 1
    /\ \E q \in 0..(Len(pattern) - 1) :
           pattern[q + 1].op # "Step" /\ pattern[q + 1].to > Len(pattern)
    /\ IsSome(hist[pos])
    /\ \E i \in DOMAIN threads : threads[i][1] = Len(pattern)
=============================================================================
